---- MODULE Spec2Model ----
(***************************************************************************)
(* Model of the segmented parallel downloader of uploader_script.py:       *)
(* fast_download, its nested worker coroutine, the ProgressTracker it      *)
(* feeds and the part of process_link that consumes the downloaded file.   *)
(*                                                                         *)
(* asyncio runs the coroutines on one thread, so a step of the model is    *)
(* the code a coroutine runs between two suspensions.  A worker suspends   *)
(* only inside client.iter_download (the network request of the next       *)
(* piece): queue.get() on a non-empty queue and the acquisition of the     *)
(* never-contended file_lock return without suspending.  fast_download     *)
(* suspends only where it awaits asyncio.gather on the worker tasks.       *)
(***************************************************************************)
EXTENDS Integers, Sequences, FiniteSets, TLC

\* ---- bounds of the model --------------------------------------------
MaxFileSize == 3
MaxChunkSize == 2
\* uploader_script.py:24 sets 20; the model runs with this many workers
PARALLEL_WORKERS == 2
MaxWait == 1
MaxTime == 1
MaxLinks == 2
MaxClock == 6
MaxStreams == 3

\* line 54: the 0.5 s between two renders, in tenths of a second
UI_THROTTLE == 5
\* time.time() when the program starts: far from the 0 of last_ui_update
StartClock == UI_THROTTLE
\* abs_current=None
NoAbs == -1

Workers == 1..PARALLEL_WORKERS
NoChunk == -1
\* a stream index that is None
NoIndex == -1

VARIABLES
    file_size,        \* media.document.size
    chunk_size,       \* CHUNK_SIZE_KB * 1024
    epc,              \* position of fast_download
    plpc,             \* position of process_link
    queue,            \* asyncio.Queue of chunk indices
    unfinished,       \* queue._unfinished_tasks
    fileExists,       \* the destination path exists on disk
    fileOpen,         \* the handle f of the with-block is open
    fdata,            \* the bytes of the destination file
    fpos,             \* the position of the one file handle f
    wrote,            \* per byte offset: how many times it was written
    wpc,              \* per worker: position of the worker coroutine
    wchunk,           \* per worker: chunk_index it holds
    wgot,             \* per worker: bytes iter_download has yielded so far
    downloaded_bytes, \* tracker.downloaded_bytes
    attempts,         \* per chunk: number of iter_download calls for it
    outcome,          \* per chunk: how its last fetch ended
    retryNotBefore,   \* per chunk: time of its rate-limit signal plus the wait
    earlyRetry,       \* a chunk was fetched again before its wait was over
    cancelReq,        \* Task.cancel() reached the task running fast_download
    wcancel,          \* per worker: a CancelledError is due at its await
    fetchAfterCancel, \* a fetch was issued after the cancellation
    now,              \* wall clock
    mpc,              \* position of main
    connected,        \* the TelegramClient session is started
    linksLeft,        \* links of sys.argv[1] that main has not handled yet
    total_size,       \* tracker.total_size
    last_ui_update,   \* tracker.last_ui_update: time of the last render
    prevRender,       \* time of the render before the last one (0: none)
    lastRenderFull,   \* downloaded_bytes >= total_size held at the last render
    env,              \* main.py: names of the environment variables that are set
    wfpc,             \* position of main_workflow
    wflog,            \* the steps main_workflow has carried out, in order
    downloaded_file,  \* what download_latest_video returned
    streams,          \* the streams ffprobe listed for downloaded_file
    video_index,      \* first result of inspect_and_select_streams
    audio_index,      \* second result of inspect_and_select_streams
    final_video_path, \* what transcode_for_youtube returned
    extracted_srt_path, \* what inspect_and_extract_subtitles returned
    youtube_service,  \* what get_authenticated_service_non_interactive returned
    video_id          \* what upload_video_to_youtube returned

vars == <<file_size, chunk_size, epc, plpc, queue, unfinished, fileExists,
          fileOpen, fdata, wrote, wpc, wchunk, wgot, downloaded_bytes,
          attempts, outcome, retryNotBefore, earlyRetry, cancelReq, wcancel,
          fetchAfterCancel, now, mpc, connected, linksLeft, total_size,
          last_ui_update, prevRender, lastRenderFull, fpos, env, wfpc, wflog,
          downloaded_file, streams, video_index, audio_index,
          final_video_path, extracted_srt_path, youtube_service, video_id>>

\* the state of main_workflow of main.py
workflowVars == <<env, wfpc, wflog, downloaded_file, streams, video_index,
                  audio_index, final_video_path, extracted_srt_path,
                  youtube_service, video_id>>

\* the state of main
mainVars == <<mpc, connected, linksLeft>>

\* the render state of the ProgressTracker
uiVars == <<total_size, last_ui_update, prevRender, lastRenderFull>>

\* ---- helpers --------------------------------------------------------
Min(a, b) == IF a < b THEN a ELSE b

Range(s) == {s[i] : i \in 1..Len(s)}

\* the byte the remote holds at an offset (byte-marker stub of the fetch)
RemoteByte(o) == (o % 255) + 1

\* variant: the chunk count rounded down
TotalChunksFloor(fs, cs) == fs \div cs

\* math.ceil(file_size / chunk_size)
TotalChunks(fs, cs) == (fs + cs - 1) \div cs

\* offset = chunk_index * chunk_size
Offset(c, cs) == c * cs

\* variant: every chunk is requested at the full chunk size
CurrentLimitFull(c, fs, cs) == cs

\* current_limit = min(chunk_size, file_size - offset)
CurrentLimit(c, fs, cs) == Min(cs, fs - Offset(c, cs))

\* variant: always the configured number of workers
NumWorkersFixed(fs, cs) == PARALLEL_WORKERS

\* min(PARALLEL_WORKERS, total_chunks)
NumWorkers(fs, cs) == Min(PARALLEL_WORKERS, TotalChunks(fs, cs))

\* variant: no pre-allocation
TruncateSkipped(d, size) == d

\* f.truncate(size) on a file holding d
Truncate(d, size) ==
    [i \in 1..size |-> IF i <= Len(d) THEN d[i] ELSE 0]

\* variant: the write goes to the end of the file (append mode)
SeekWriteAppend(d, pos, data) == d \o data

\* f.seek(pos); f.write(data) on a file holding d
SeekWrite(d, pos, data) ==
    LET newLen == IF pos + Len(data) > Len(d) THEN pos + Len(data) ELSE Len(d)
    IN  [i \in 1..newLen |->
            IF i > pos /\ i <= pos + Len(data) THEN data[i - pos]
            ELSE IF i <= Len(d) THEN d[i] ELSE 0]

\* variant: the write lands where the shared handle happens to stand
WritePosShared(sought, shared) == shared

\* lines 145-147: where f.write lands: seek and write are one step under
\* file_lock, so at the offset this worker has just sought
WritePos(sought, shared) == sought

\* variant: a bare except, which catches the cancellation too
CaughtByBareExcept(exc) == TRUE

\* variant: a handler for the transient error only
CaughtByExceptTransient(exc) == exc = "TransientIOError"

\* `except Exception` catches every error of the fetch but not the
\* CancelledError of a cancelled task (a BaseException)
CaughtByExcept(exc) == exc # "CancelledError"

Chunks == 0..(MaxFileSize - 1)
Offsets == 0..(MaxFileSize + MaxChunkSize)

FetchErrors == {"TransientIOError", "RateLimited", "FatalRemoteError"}

\* ---- ProgressTracker ------------------------------------------------
\* variant: no throttle, every call renders
SkipRenderNever(t, last, db, total) == FALSE

\* line 54: the call returns without rendering
SkipRender(t, last, db, total) == t - last < UI_THROTTLE /\ db < total

\* variant: the increment replaces the count instead of being added
TrackerUpdateAssign(current_inc, abs_current) ==
    LET db == IF abs_current # NoAbs THEN abs_current ELSE current_inc
    IN  /\ downloaded_bytes' = db
        /\ IF SkipRender(now, last_ui_update, db, total_size)
           THEN UNCHANGED <<last_ui_update, prevRender, lastRenderFull>>
           ELSE /\ last_ui_update' = now
                /\ prevRender' = last_ui_update
                /\ lastRenderFull' = (db >= total_size)

\* lines 45-78: ProgressTracker.update(current_inc, abs_current)
TrackerUpdate(current_inc, abs_current) ==
    LET db == IF abs_current # NoAbs THEN abs_current
              ELSE downloaded_bytes + current_inc
    IN  /\ downloaded_bytes' = db
        /\ IF SkipRender(now, last_ui_update, db, total_size)
           THEN UNCHANGED <<last_ui_update, prevRender, lastRenderFull>>
           ELSE /\ last_ui_update' = now
                /\ prevRender' = last_ui_update
                /\ lastRenderFull' = (db >= total_size)

\* main_workflow is not running
WorkflowIdle ==
    /\ env = {}
    /\ wfpc = "idle"
    /\ wflog = <<>>
    /\ downloaded_file = "None"
    /\ streams = <<>>
    /\ video_index = NoIndex
    /\ audio_index = NoIndex
    /\ final_video_path = "None"
    /\ extracted_srt_path = "None"
    /\ youtube_service = "None"
    /\ video_id = "None"

\* ---- initial state: fast_download is about to be called -------------
Init ==
    /\ file_size \in 0..MaxFileSize
    /\ chunk_size \in 1..MaxChunkSize
    /\ epc = "start"
    /\ plpc = "downloading"
    /\ queue = <<>>
    /\ unfinished = 0
    /\ fileExists = FALSE
    /\ fileOpen = FALSE
    /\ fdata = <<>>
    /\ fpos = 0
    /\ wrote = [o \in Offsets |-> 0]
    /\ wpc = [w \in Workers |-> "unborn"]
    /\ wchunk = [w \in Workers |-> NoChunk]
    /\ wgot = [w \in Workers |-> 0]
    /\ downloaded_bytes = 0
    /\ attempts = [c \in Chunks |-> 0]
    /\ outcome = [c \in Chunks |-> "none"]
    /\ retryNotBefore = [c \in Chunks |-> 0]
    /\ earlyRetry = FALSE
    /\ cancelReq = FALSE
    /\ wcancel = [w \in Workers |-> FALSE]
    /\ fetchAfterCancel = FALSE
    /\ now = StartClock
    /\ total_size = 0
    /\ last_ui_update = 0
    /\ prevRender = 0
    /\ lastRenderFull = FALSE
    /\ mpc = "in_link"
    /\ connected = TRUE
    /\ linksLeft = 1
    /\ WorkflowIdle

\* ---- fast_download up to the await of gather ------------------------
\* lines 108-162: tracker, chunk count, queue, open + truncate, workers.
\* With no worker, gather() is already resolved and fast_download runs to
\* its end without suspending.
Begin ==
    /\ epc = "start"
    /\ LET tc == TotalChunks(file_size, chunk_size)
           nw == NumWorkers(file_size, chunk_size)
       IN  /\ queue' = [i \in 1..tc |-> i - 1]
           /\ unfinished' = tc
           /\ fileExists' = TRUE
           /\ fdata' = Truncate(<<>>, file_size)
           /\ fpos' = 0
           /\ wpc' = [w \in Workers |-> IF w <= nw THEN "created" ELSE "unborn"]
           /\ fileOpen' = (nw > 0)
           /\ epc' = IF nw > 0 THEN "gather" ELSE "complete"
    /\ total_size' = file_size
    /\ downloaded_bytes' = 0
    /\ last_ui_update' = 0
    /\ prevRender' = 0
    /\ lastRenderFull' = FALSE
    /\ wrote' = [o \in Offsets |-> 0]
    /\ wchunk' = [w \in Workers |-> NoChunk]
    /\ wgot' = [w \in Workers |-> 0]
    /\ attempts' = [c \in Chunks |-> 0]
    /\ outcome' = [c \in Chunks |-> "none"]
    /\ retryNotBefore' = [c \in Chunks |-> 0]
    /\ earlyRetry' = FALSE
    /\ fetchAfterCancel' = FALSE
    /\ UNCHANGED <<workflowVars, mainVars, file_size, chunk_size, plpc, cancelReq, wcancel,
                   now>>

\* ---- the worker coroutine -------------------------------------------
\* variant: a get that hands out an item other than the one it removes
FrontStale(q) == q[Len(q)]

\* line 129: the item queue.get() removes and returns
Front(q) == Head(q)

\* variant: the worker takes the next chunk too while it is at the queue
LoopHeadGreedy(w, q) ==
    IF Len(q) < 2
    THEN /\ wpc' = [wpc EXCEPT ![w] = IF q = <<>> THEN "done" ELSE "fetching"]
         /\ wchunk' = [wchunk EXCEPT ![w] = IF q = <<>> THEN NoChunk ELSE Front(q)]
         /\ wgot' = [wgot EXCEPT ![w] = 0]
         /\ queue' = <<>>
         /\ attempts' = [c \in Chunks |->
                           IF c \in Range(q) THEN attempts[c] + 1
                           ELSE attempts[c]]
         /\ UNCHANGED <<fetchAfterCancel, earlyRetry>>
    ELSE /\ wpc' = [wpc EXCEPT ![w] = "fetching"]
         /\ wchunk' = [wchunk EXCEPT ![w] = Front(q)]
         /\ wgot' = [wgot EXCEPT ![w] = 0]
         /\ queue' = Tail(Tail(q))
         /\ attempts' = [c \in Chunks |->
                           IF c \in {q[1], q[2]} THEN attempts[c] + 1
                           ELSE attempts[c]]
         /\ UNCHANGED <<fetchAfterCancel, earlyRetry>>

\* variant: `while True` around the get: on an empty queue the worker
\* waits in queue.get() for an item that nobody will put
LoopHeadBlocking(w, q) ==
    IF q = <<>>
    THEN /\ wpc' = [wpc EXCEPT ![w] = "blocked"]
         /\ wchunk' = [wchunk EXCEPT ![w] = NoChunk]
         /\ wgot' = [wgot EXCEPT ![w] = 0]
         /\ queue' = q
         /\ UNCHANGED <<attempts, fetchAfterCancel, earlyRetry>>
    ELSE /\ wpc' = [wpc EXCEPT ![w] = "fetching"]
         /\ wchunk' = [wchunk EXCEPT ![w] = Front(q)]
         /\ wgot' = [wgot EXCEPT ![w] = 0]
         /\ queue' = Tail(q)
         /\ attempts' = [attempts EXCEPT ![Front(q)] = @ + 1]
         /\ fetchAfterCancel' = (fetchAfterCancel \/ cancelReq)
         /\ earlyRetry' = (earlyRetry \/ now < retryNotBefore[Front(q)])

\* lines 128-144: `while not queue.empty()`, queue.get(), offset, limit
\* and the call of iter_download, up to the await of the first piece
LoopHead(w, q) ==
    IF q = <<>>
    THEN /\ wpc' = [wpc EXCEPT ![w] = "done"]
         /\ wchunk' = [wchunk EXCEPT ![w] = NoChunk]
         /\ wgot' = [wgot EXCEPT ![w] = 0]
         /\ queue' = q
         /\ UNCHANGED <<attempts, fetchAfterCancel, earlyRetry>>
    ELSE /\ wpc' = [wpc EXCEPT ![w] = "fetching"]
         /\ wchunk' = [wchunk EXCEPT ![w] = Front(q)]
         /\ wgot' = [wgot EXCEPT ![w] = 0]
         /\ queue' = Tail(q)
         /\ attempts' = [attempts EXCEPT ![Front(q)] = @ + 1]
         /\ fetchAfterCancel' = (fetchAfterCancel \/ cancelReq)
         /\ earlyRetry' = (earlyRetry \/ now < retryNotBefore[Front(q)])

\* the session a worker fetches through: every worker closes over the one
\* client that main built ('bot_session') and passed to fast_download
SessionOf(w) == "bot_session"

\* first step of a worker task
WorkerStart(w) ==
    /\ wpc[w] = "created"
    /\ ~wcancel[w]
    /\ LoopHead(w, queue)
    /\ UNCHANGED <<workflowVars, mainVars, uiVars, fpos, file_size,
                   chunk_size, epc, plpc, unfinished, fileExists, fileOpen,
                   fdata, wrote, downloaded_bytes, outcome, retryNotBefore,
                   cancelReq, wcancel, now>>

\* the bytes the remote returns for [from, from + n)
RemoteBytes(from, n) == [i \in 1..n |-> RemoteByte(from + i - 1)]

\* lines 138-150: iter_download yields a piece of n bytes; it is written
\* under file_lock after f.seek(offset) and reported to the tracker
PieceArrives(w, n) ==
    /\ wpc[w] = "fetching"
    /\ ~wcancel[w]
    /\ LET c == wchunk[w]
           offset == Offset(c, chunk_size)
           limit == CurrentLimit(c, file_size, chunk_size)
       IN  /\ n >= 1
           /\ wgot[w] + n <= limit
           /\ fdata' = SeekWrite(fdata, WritePos(offset, fpos),
                                 RemoteBytes(offset + wgot[w], n))
           /\ fpos' = WritePos(offset, fpos) + n
           /\ wrote' = [o \in Offsets |->
                          IF /\ o >= WritePos(offset, fpos)
                             /\ o < WritePos(offset, fpos) + n
                          THEN wrote[o] + 1 ELSE wrote[o]]
           /\ TrackerUpdate(n, NoAbs)
           /\ wgot' = [wgot EXCEPT ![w] = @ + n]
    /\ UNCHANGED <<workflowVars, mainVars, total_size, file_size, chunk_size, epc, plpc,
                   queue, unfinished,
                   fileExists, fileOpen, wpc, wchunk, attempts, outcome,
                   retryNotBefore, earlyRetry, cancelReq, wcancel,
                   fetchAfterCancel, now>>

\* lines 138-157: iter_download is exhausted; finally: task_done(); loop
FetchReturns(w) ==
    /\ wpc[w] = "fetching"
    /\ ~wcancel[w]
    /\ outcome' = [outcome EXCEPT ![wchunk[w]] =
                     IF wgot[w] = CurrentLimit(wchunk[w], file_size, chunk_size)
                     THEN "ok" ELSE "short"]
    /\ unfinished' = unfinished - 1
    /\ LoopHead(w, queue)
    /\ UNCHANGED <<workflowVars, mainVars, uiVars, fpos, file_size,
                   chunk_size, epc, plpc, fileExists, fileOpen, fdata, wrote,
                   downloaded_bytes, retryNotBefore, cancelReq, wcancel, now>>

\* lines 152-157: the await inside iter_download raises exc.  A caught
\* exception is printed and the loop goes on; in both cases the finally
\* clause calls task_done()
Raise(w, exc) ==
    /\ outcome' = [outcome EXCEPT ![wchunk[w]] = exc]
    /\ unfinished' = unfinished - 1
    /\ IF CaughtByExcept(exc)
       THEN LoopHead(w, queue)
       ELSE /\ wpc' = [wpc EXCEPT ![w] = "done"]
            /\ wchunk' = [wchunk EXCEPT ![w] = NoChunk]
            /\ wgot' = [wgot EXCEPT ![w] = 0]
            /\ UNCHANGED <<queue, attempts, fetchAfterCancel, earlyRetry>>

\* the fetch fails; a rate-limit signal carries the wait duration T
FetchRaises(w, exc, T) ==
    /\ wpc[w] = "fetching"
    /\ ~wcancel[w]
    /\ exc \in FetchErrors
    /\ Raise(w, exc)
    /\ retryNotBefore' =
         IF exc = "RateLimited"
         THEN [retryNotBefore EXCEPT ![wchunk[w]] = now + T]
         ELSE retryNotBefore
    /\ UNCHANGED <<workflowVars, mainVars, uiVars, fpos, file_size,
                   chunk_size, epc, plpc, fileExists, fileOpen, fdata, wrote,
                   downloaded_bytes, cancelReq, wcancel, now>>

\* the CancelledError of a cancelled worker task is thrown at its await
WorkerCancelled(w) ==
    /\ wcancel[w]
    /\ wcancel' = [wcancel EXCEPT ![w] = FALSE]
    /\ \/ /\ wpc[w] = "created"
          /\ wpc' = [wpc EXCEPT ![w] = "done"]
          /\ UNCHANGED <<wchunk, wgot, queue, attempts, fetchAfterCancel,
                         earlyRetry, outcome, unfinished>>
       \/ /\ wpc[w] = "fetching"
          /\ Raise(w, "CancelledError")
    /\ UNCHANGED <<workflowVars, mainVars, uiVars, fpos, file_size,
                   chunk_size, epc, plpc, fileExists, fileOpen, fdata, wrote,
                   downloaded_bytes, retryNotBefore, cancelReq, now>>

\* ---- cancellation and the end of fast_download ----------------------
\* the task running fast_download is cancelled while it awaits gather,
\* which cancels every worker task that has not finished
Cancel ==
    /\ epc = "gather"
    /\ ~cancelReq
    /\ cancelReq' = TRUE
    /\ wcancel' = [w \in Workers |-> wpc[w] \in {"created", "fetching"}]
    /\ UNCHANGED <<workflowVars, mainVars, uiVars, fpos, file_size,
                   chunk_size, epc, plpc, queue, unfinished, fileExists,
                   fileOpen, fdata, wrote, wpc, wchunk, wgot,
                   downloaded_bytes, attempts, outcome, retryNotBefore,
                   earlyRetry, fetchAfterCancel, now>>

\* variant: waiting for the first worker only
FirstReturned(pcs) == \E w \in Workers : pcs[w] = "done"

\* line 162: gather is done when every worker task it was given is done
AllReturned(pcs) == \A w \in Workers : pcs[w] \in {"unborn", "done"}

\* lines 162-166: gather resumes once every worker task has finished; the
\* with-block closes f; a CancelledError leaves fast_download, otherwise
\* "Download Complete" is printed
Finish ==
    /\ epc = "gather"
    /\ AllReturned(wpc)
    /\ fileOpen' = FALSE
    /\ epc' = IF cancelReq THEN "cancelled" ELSE "complete"
    /\ UNCHANGED <<workflowVars, mainVars, uiVars, fpos, file_size,
                   chunk_size, plpc, queue, unfinished, fileExists, fdata,
                   wrote, wpc, wchunk, wgot, downloaded_bytes, attempts,
                   outcome, retryNotBefore, earlyRetry, cancelReq, wcancel,
                   fetchAfterCancel, now>>

\* ---- process_link after the download --------------------------------
\* lines 382-389: get_file_info, get_metadata, process_video_advanced and
\* upload_to_youtube run on raw_file once fast_download has returned
ProcessAndUpload ==
    /\ epc = "complete"
    /\ plpc = "downloading"
    /\ plpc' = "uploaded"
    /\ UNCHANGED <<workflowVars, mainVars, uiVars, fpos, file_size,
                   chunk_size, epc, queue, unfinished, fileExists, fileOpen,
                   fdata, wrote, wpc, wchunk, wgot, downloaded_bytes,
                   attempts, outcome, retryNotBefore, earlyRetry, cancelReq,
                   wcancel, fetchAfterCancel, now>>

\* lines 393-396 do not catch the CancelledError: it leaves process_link
LinkAborted ==
    /\ epc = "cancelled"
    /\ plpc = "downloading"
    /\ plpc' = "aborted"
    /\ UNCHANGED <<workflowVars, mainVars, uiVars, fpos, file_size,
                   chunk_size, epc, queue, unfinished, fileExists, fileOpen,
                   fdata, wrote, wpc, wchunk, wgot, downloaded_bytes,
                   attempts, outcome, retryNotBefore, earlyRetry, cancelReq,
                   wcancel, fetchAfterCancel, now>>

\* time passes while the download is suspended
Tick ==
    /\ epc = "gather"
    /\ now < StartClock + MaxTime
    /\ now' = now + 1
    /\ UNCHANGED <<workflowVars, mainVars, uiVars, fpos, file_size,
                   chunk_size, epc, plpc, queue, unfinished, fileExists,
                   fileOpen, fdata, wrote, wpc, wchunk, wgot,
                   downloaded_bytes, attempts, outcome, retryNotBefore,
                   earlyRetry, cancelReq, wcancel, fetchAfterCancel>>

\* The clock stands still here, so every wait T >= 1 of a rate-limit
\* signal ends after `now` alike: the longest one stands for all.
Next ==
    \/ Begin
    \/ \E w \in Workers : WorkerStart(w)
    \/ \E w \in Workers, n \in 1..MaxChunkSize : PieceArrives(w, n)
    \/ \E w \in Workers : FetchReturns(w)
    \/ \E w \in Workers, exc \in FetchErrors : FetchRaises(w, exc, MaxWait)
    \/ \E w \in Workers : WorkerCancelled(w)
    \/ Cancel
    \/ Finish
    \/ ProcessAndUpload
    \/ LinkAborted

Spec == Init /\ [][Next]_vars

\* the same with the wall clock running, for what depends on waiting
NextTimed ==
    \/ Next
    \/ \E w \in Workers, exc \in FetchErrors, T \in 1..MaxWait :
          FetchRaises(w, exc, T)
    \/ Tick

SpecTimed == Init /\ [][NextTimed]_vars

\* ---- main and process_link around the download ----------------------
\* everything fast_download and its workers own
downloadVars == <<epc, queue, unfinished, fileOpen, fdata, wrote, wpc, wchunk,
                  wgot, downloaded_bytes, attempts, outcome, retryNotBefore,
                  earlyRetry, cancelReq, wcancel, fetchAfterCancel, uiVars,
                  fpos>>

\* main is called with between 1 and MaxLinks links in sys.argv[1]
InitMain ==
    /\ file_size = 0
    /\ chunk_size \in 1..MaxChunkSize
    /\ epc = "idle"
    /\ plpc = "idle"
    /\ queue = <<>>
    /\ unfinished = 0
    /\ fileExists = FALSE
    /\ fileOpen = FALSE
    /\ fdata = <<>>
    /\ fpos = 0
    /\ wrote = [o \in Offsets |-> 0]
    /\ wpc = [w \in Workers |-> "unborn"]
    /\ wchunk = [w \in Workers |-> NoChunk]
    /\ wgot = [w \in Workers |-> 0]
    /\ downloaded_bytes = 0
    /\ attempts = [c \in Chunks |-> 0]
    /\ outcome = [c \in Chunks |-> "none"]
    /\ retryNotBefore = [c \in Chunks |-> 0]
    /\ earlyRetry = FALSE
    /\ cancelReq = FALSE
    /\ wcancel = [w \in Workers |-> FALSE]
    /\ fetchAfterCancel = FALSE
    /\ now = StartClock
    /\ total_size = 0
    /\ last_ui_update = 0
    /\ prevRender = 0
    /\ lastRenderFull = FALSE
    /\ mpc = "start"
    /\ connected = FALSE
    /\ linksLeft \in 1..MaxLinks
    /\ WorkflowIdle

\* lines 402-411: the client is built and started; ok = FALSE is
\* client.start raising, which ends main before any session is started
ClientStart(ok) ==
    /\ mpc = "start"
    /\ connected' = ok
    /\ mpc' = IF ok THEN "loop" ELSE "raised"
    /\ UNCHANGED <<workflowVars, linksLeft, file_size, chunk_size, plpc, fileExists, now,
                   downloadVars>>

\* lines 412-413: the for loop calls process_link with the next link
LinkBegin ==
    /\ mpc = "loop"
    /\ linksLeft > 0
    /\ mpc' = "in_link"
    /\ plpc' = "resolving"
    /\ UNCHANGED <<workflowVars, connected, linksLeft, file_size, chunk_size, fileExists,
                   now, downloadVars>>

\* lines 363-380: the link is parsed, the message fetched, the file name
\* chosen and fast_download called on a document of size fs
Resolve(fs) ==
    /\ plpc = "resolving"
    /\ plpc' = "downloading"
    /\ epc' = "start"
    /\ file_size' = fs
    /\ fileExists' = FALSE
    /\ UNCHANGED <<workflowVars, mainVars, uiVars, fpos, chunk_size, now,
                   queue, unfinished, fileOpen, fdata, wrote, wpc, wchunk,
                   wgot, downloaded_bytes, attempts, outcome, retryNotBefore,
                   earlyRetry, cancelReq, wcancel, fetchAfterCancel>>

\* lines 363-368, 393-396: parsing the link or get_messages raises; the
\* exception is printed and process_link returns
ResolveFails ==
    /\ plpc = "resolving"
    /\ plpc' = "returned"
    /\ UNCHANGED <<workflowVars, mainVars, file_size, chunk_size, fileExists, now,
                   downloadVars>>

\* lines 120, 393-396: fast_download raises before it has started a
\* worker, as when open() fails; the exception is printed and
\* process_link returns
DownloadFails ==
    /\ epc = "start"
    /\ plpc = "downloading"
    /\ epc' = "raised"
    /\ plpc' = "returned"
    /\ UNCHANGED <<workflowVars, mainVars, uiVars, fpos, file_size, chunk_size, now, queue,
                   unfinished, fileExists, fileOpen, fdata, wrote, wpc,
                   wchunk, wgot, downloaded_bytes, attempts, outcome,
                   retryNotBefore, earlyRetry, cancelReq, wcancel,
                   fetchAfterCancel>>

\* variant: the exception is not caught and leaves process_link
ProcessFailsUncaught ==
    /\ epc = "complete"
    /\ plpc = "downloading"
    /\ plpc' = "aborted"
    /\ UNCHANGED <<workflowVars, mainVars, file_size, chunk_size, fileExists, now,
                   downloadVars>>

\* lines 386-387, 393-396: get_metadata or process_video_advanced raises
\* after the download; the exception is printed and process_link returns
ProcessFails ==
    /\ epc = "complete"
    /\ plpc = "downloading"
    /\ plpc' = "returned"
    /\ UNCHANGED <<workflowVars, mainVars, file_size, chunk_size, fileExists, now,
                   downloadVars>>

\* lines 391-392: the temporary files are removed and process_link returns
Cleanup ==
    /\ plpc = "uploaded"
    /\ plpc' = "returned"
    /\ fileExists' = FALSE
    /\ UNCHANGED <<workflowVars, mainVars, file_size, chunk_size, now, downloadVars>>

\* lines 412-413: process_link has returned, the loop goes to the next link
LinkReturn ==
    /\ mpc = "in_link"
    /\ plpc = "returned"
    /\ plpc' = "idle"
    /\ mpc' = "loop"
    /\ linksLeft' = linksLeft - 1
    /\ UNCHANGED <<workflowVars, connected, file_size, chunk_size, fileExists, now,
                   downloadVars>>

\* line 414: after the last link the client is disconnected
Disconnect ==
    /\ mpc = "loop"
    /\ linksLeft = 0
    /\ connected' = FALSE
    /\ mpc' = "ended"
    /\ UNCHANGED <<workflowVars, linksLeft, file_size, chunk_size, plpc, fileExists, now,
                   downloadVars>>

\* lines 412-414: the CancelledError that left process_link leaves main
MainAborted ==
    /\ mpc = "in_link"
    /\ plpc = "aborted"
    /\ mpc' = "aborted"
    /\ UNCHANGED <<workflowVars, connected, linksLeft, file_size, chunk_size, plpc,
                   fileExists, now, downloadVars>>

NextMain ==
    \/ Next
    \/ \E ok \in BOOLEAN : ClientStart(ok)
    \/ LinkBegin
    \/ \E fs \in 0..MaxFileSize : Resolve(fs)
    \/ ResolveFails
    \/ DownloadFails
    \/ ProcessFails
    \/ Cleanup
    \/ LinkReturn
    \/ Disconnect
    \/ MainAborted

SpecMain == InitMain /\ [][NextMain]_vars

\* ---- a ProgressTracker on its own -----------------------------------
\* lines 38-43: ProgressTracker(total_size) was just built
InitTracker ==
    /\ total_size \in 1..MaxFileSize
    /\ downloaded_bytes = 0
    /\ last_ui_update = 0
    /\ prevRender = 0
    /\ lastRenderFull = FALSE
    /\ now = StartClock
    /\ file_size = 0
    /\ chunk_size = 1
    /\ epc = "idle"
    /\ plpc = "idle"
    /\ mpc = "idle"
    /\ connected = FALSE
    /\ linksLeft = 0
    /\ queue = <<>>
    /\ unfinished = 0
    /\ fileExists = FALSE
    /\ fileOpen = FALSE
    /\ fdata = <<>>
    /\ fpos = 0
    /\ wrote = [o \in Offsets |-> 0]
    /\ wpc = [w \in Workers |-> "unborn"]
    /\ wchunk = [w \in Workers |-> NoChunk]
    /\ wgot = [w \in Workers |-> 0]
    /\ attempts = [c \in Chunks |-> 0]
    /\ outcome = [c \in Chunks |-> "none"]
    /\ retryNotBefore = [c \in Chunks |-> 0]
    /\ earlyRetry = FALSE
    /\ cancelReq = FALSE
    /\ wcancel = [w \in Workers |-> FALSE]
    /\ fetchAfterCancel = FALSE
    /\ WorkflowIdle

everythingButTracker ==
    <<workflowVars, mainVars, file_size, chunk_size, epc, plpc, queue, unfinished,
      fileExists, fileOpen, fdata, wrote, wpc, wchunk, wgot, attempts,
      outcome, retryNotBefore, earlyRetry, cancelReq, wcancel,
      fetchAfterCancel, total_size, fpos>>

\* line 150: update(current_inc=n), as the parallel downloader calls it
UpdateInc(n) ==
    /\ downloaded_bytes + n <= MaxFileSize + 1
    /\ TrackerUpdate(n, NoAbs)
    /\ UNCHANGED <<everythingButTracker, now>>

\* line 340: update(abs_current=a), as the upload loop calls it
UpdateAbs(a) ==
    /\ TrackerUpdate(0, a)
    /\ UNCHANGED <<everythingButTracker, now>>

\* time passes between two calls
TrackerTick ==
    /\ now < StartClock + MaxClock
    /\ now' = now + 1
    /\ UNCHANGED <<everythingButTracker, downloaded_bytes, last_ui_update,
                   prevRender, lastRenderFull>>

NextTracker ==
    \/ \E n \in 0..MaxChunkSize : UpdateInc(n)
    \/ \E a \in 0..(MaxFileSize + 1) : UpdateAbs(a)
    \/ TrackerTick

SpecTracker == InitTracker /\ [][NextTracker]_vars

\* ---- one download under a fair scheduler ----------------------------
\* fast_download and its workers alone, left to run: nothing cancels the
\* task, and every fetch returns or raises
NextRun ==
    \/ Begin
    \/ \E w \in Workers : WorkerStart(w)
    \/ \E w \in Workers, n \in 1..MaxChunkSize : PieceArrives(w, n)
    \/ \E w \in Workers : FetchReturns(w)
    \/ \E w \in Workers, exc \in FetchErrors : FetchRaises(w, exc, MaxWait)
    \/ Finish

\* the fetch of worker w comes to an end: it returns or it raises
FetchEnds(w) ==
    \/ FetchReturns(w)
    \/ \E exc \in FetchErrors : FetchRaises(w, exc, MaxWait)

\* the event loop runs every task that is ready, and every fetch ends
FairRun ==
    /\ WF_vars(Begin)
    /\ WF_vars(Finish)
    /\ \A w \in Workers : WF_vars(WorkerStart(w)) /\ WF_vars(FetchEnds(w))

SpecRun == Init /\ [][NextRun]_vars /\ FairRun

\* ---- main.py: main_workflow -----------------------------------------
\* everything that belongs to uploader_script.py
uploaderVars ==
    <<mainVars, uiVars, file_size, chunk_size, epc, plpc, queue, unfinished,
      fileExists, fileOpen, fdata, fpos, wrote, wpc, wchunk, wgot,
      downloaded_bytes, attempts, outcome, retryNotBefore, earlyRetry,
      cancelReq, wcancel, fetchAfterCancel, now>>

\* uploader_script.py is not running
UploaderIdle ==
    /\ file_size = 0
    /\ chunk_size = 1
    /\ epc = "idle"
    /\ plpc = "idle"
    /\ mpc = "idle"
    /\ connected = FALSE
    /\ linksLeft = 0
    /\ queue = <<>>
    /\ unfinished = 0
    /\ fileExists = FALSE
    /\ fileOpen = FALSE
    /\ fdata = <<>>
    /\ fpos = 0
    /\ wrote = [o \in Offsets |-> 0]
    /\ wpc = [w \in Workers |-> "unborn"]
    /\ wchunk = [w \in Workers |-> NoChunk]
    /\ wgot = [w \in Workers |-> 0]
    /\ downloaded_bytes = 0
    /\ attempts = [c \in Chunks |-> 0]
    /\ outcome = [c \in Chunks |-> "none"]
    /\ retryNotBefore = [c \in Chunks |-> 0]
    /\ earlyRetry = FALSE
    /\ cancelReq = FALSE
    /\ wcancel = [w \in Workers |-> FALSE]
    /\ fetchAfterCancel = FALSE
    /\ now = StartClock
    /\ total_size = 0
    /\ last_ui_update = 0
    /\ prevRender = 0
    /\ lastRenderFull = FALSE

\* config.py:23-27: required_vars
RequiredVars ==
    {"TELEGRAM_API_ID", "TELEGRAM_API_HASH", "TG_BOT_TOKEN", "OMDB_API_KEY",
     "GEMINI_API_KEY", "YOUTUBE_CLIENT_SECRETS", "CHANNEL_LINK"}

\* the environment variables the two modules read
EnvNames == RequiredVars \cup {"YOUTUBE_REFRESH_TOKEN", "YOUTUBE_TOKEN"}

\* config.py:14: os.getenv('YOUTUBE_REFRESH_TOKEN') or
\* os.getenv('YOUTUBE_TOKEN') is truthy
YOUTUBE_TOKEN(e) == "YOUTUBE_REFRESH_TOKEN" \in e \/ "YOUTUBE_TOKEN" \in e

\* config.py:29-31: the list `missing` of validate_config
Missing(e) ==
    (RequiredVars \ e)
        \cup (IF YOUTUBE_TOKEN(e) THEN {} ELSE {"YOUTUBE_REFRESH_TOKEN"})

\* youtube_service.py:13-16: both strings the function reads are set
CredentialsFound(e) == "YOUTUBE_CLIENT_SECRETS" \in e /\ "YOUTUBE_TOKEN" \in e

\* ---- media_service.py: inspect_and_select_streams -------------------
CodecTypes == {"video", "audio", "subtitle"}

\* language tags of a stream; "" is a stream without the tag
Langs == {"eng", "ENG", "fre", ""}

\* variant: the tag is compared as it is written
LowerNot(l) == l

\* str.lower() on the tags above
Lower(l) == IF l = "ENG" THEN "eng" ELSE l

\* the streams ffprobe lists: stream i of the file has index i
StreamLists ==
    UNION {[1..n -> CodecTypes \X Langs] : n \in 0..MaxStreams}

ProbeOutput(kinds) ==
    [i \in 1..Len(kinds) |->
        [index |-> i - 1, codec_type |-> kinds[i][1], language |-> kinds[i][2]]]

\* lines 15-17: the loop over all streams that keeps the first video
RECURSIVE VideoLoop(_, _, _)
VideoLoop(ss, i, found) ==
    IF i > Len(ss) THEN found
    ELSE VideoLoop(ss, i + 1,
                   IF ss[i].codec_type = "video" /\ found = NoIndex
                   THEN ss[i].index ELSE found)

\* lines 20-25: the loop that breaks at the first English audio stream
RECURSIVE EnglishLoop(_, _)
EnglishLoop(ss, i) ==
    IF i > Len(ss) THEN NoIndex
    ELSE IF ss[i].codec_type = "audio" /\ Lower(ss[i].language) = "eng"
         THEN ss[i].index
         ELSE EnglishLoop(ss, i + 1)

\* lines 29-32: the loop that breaks at the first audio stream
RECURSIVE FallbackLoop(_, _)
FallbackLoop(ss, i) ==
    IF i > Len(ss) THEN NoIndex
    ELSE IF ss[i].codec_type = "audio" THEN ss[i].index
         ELSE FallbackLoop(ss, i + 1)

\* lines 12-35: the pair inspect_and_select_streams returns
SelectStreams(ss) ==
    LET english == EnglishLoop(ss, 1)
    IN  <<VideoLoop(ss, 1, NoIndex),
          IF english = NoIndex THEN FallbackLoop(ss, 1) ELSE english>>

\* ---- the steps of main_workflow -------------------------------------
InitWorkflow ==
    /\ UploaderIdle
    /\ env \in SUBSET EnvNames
    /\ wfpc = "start"
    /\ wflog = <<>>
    /\ downloaded_file = "None"
    /\ streams = <<>>
    /\ video_index = NoIndex
    /\ audio_index = NoIndex
    /\ final_video_path = "None"
    /\ extracted_srt_path = "None"
    /\ youtube_service = "None"
    /\ video_id = "None"

\* main.py:30, config.py:21-38: sys.exit(1) if a variable is missing
ValidateConfig ==
    /\ wfpc = "start"
    /\ wfpc' = IF Missing(env) = {} THEN "download" ELSE "exited"
    /\ UNCHANGED <<uploaderVars, env, wflog, downloaded_file, streams,
                   video_index, audio_index, final_video_path,
                   extracted_srt_path, youtube_service, video_id>>

\* main.py:34-39: download_latest_video returns a path or None
DownloadLatestVideo(path) ==
    /\ wfpc = "download"
    /\ wflog' = Append(wflog, "download")
    /\ downloaded_file' = path
    /\ wfpc' = IF path = "None" THEN "finished" ELSE "inspect"
    /\ UNCHANGED <<uploaderVars, env, streams, video_index, audio_index,
                   final_video_path, extracted_srt_path, youtube_service,
                   video_id>>

\* variant: the workflow stops only if both streams are missing
StreamsUnidentifiedBoth(v, a) == v = NoIndex /\ a = NoIndex

\* main.py:44: video_index is None or audio_index is None
StreamsUnidentified(v, a) == v = NoIndex \/ a = NoIndex

\* main.py:42-46: two of the streams ss that ffprobe lists are selected
InspectAndSelectStreams(ss) ==
    /\ wfpc = "inspect"
    /\ wflog' = Append(wflog, "inspect")
    /\ LET sel == SelectStreams(ss)
       IN  /\ video_index' = sel[1]
           /\ audio_index' = sel[2]
           /\ wfpc' = IF StreamsUnidentified(sel[1], sel[2])
                      THEN "finished" ELSE "transcode"
    /\ UNCHANGED <<uploaderVars, env, downloaded_file, streams,
                   final_video_path, extracted_srt_path, youtube_service,
                   video_id>>

\* media_service.py:8-10, 36-38: ffprobe fails or its output does not
\* parse; the function returns (None, None)
ProbeFails ==
    /\ wfpc = "inspect"
    /\ wflog' = Append(wflog, "inspect")
    /\ video_index' = NoIndex
    /\ audio_index' = NoIndex
    /\ wfpc' = IF StreamsUnidentified(NoIndex, NoIndex)
               THEN "finished" ELSE "transcode"
    /\ UNCHANGED <<uploaderVars, env, downloaded_file, streams,
                   final_video_path, extracted_srt_path, youtube_service,
                   video_id>>

\* main.py:52-54: transcode_for_youtube returns the output path or None
TranscodeForYoutube(path) ==
    /\ wfpc = "transcode"
    /\ wflog' = Append(wflog, "transcode")
    /\ final_video_path' = path
    /\ wfpc' = IF path = "None" THEN "finished" ELSE "subtitles"
    /\ UNCHANGED <<uploaderVars, env, downloaded_file, streams, video_index,
                   audio_index, extracted_srt_path, youtube_service,
                   video_id>>

\* main.py:57-93: inspect_and_extract_subtitles returns the srt path or
\* None; title, metadata and description are then built
ExtractSubtitles(path) ==
    /\ wfpc = "subtitles"
    /\ wflog' = Append(wflog, "subtitles")
    /\ extracted_srt_path' = path
    /\ wfpc' = "authenticate"
    /\ UNCHANGED <<uploaderVars, env, downloaded_file, streams, video_index,
                   audio_index, final_video_path, youtube_service, video_id>>

\* main.py:96-99, youtube_service.py:13-38: None without the credentials
Authenticate ==
    /\ wfpc = "authenticate"
    /\ wflog' = Append(wflog, "authenticate")
    /\ youtube_service' = IF CredentialsFound(env) THEN "service" ELSE "None"
    /\ wfpc' = IF CredentialsFound(env) THEN "upload" ELSE "finished"
    /\ UNCHANGED <<uploaderVars, env, downloaded_file, streams, video_index,
                   audio_index, final_video_path, extracted_srt_path,
                   video_id>>

\* main.py:107: upload_video_to_youtube returns the id of the response
UploadVideo(id) ==
    /\ wfpc = "upload"
    /\ wflog' = Append(wflog, "upload_video")
    /\ video_id' = id
    /\ wfpc' = "captions"
    /\ UNCHANGED <<uploaderVars, env, downloaded_file, streams, video_index,
                   audio_index, final_video_path, extracted_srt_path,
                   youtube_service>>

\* main.py:110-113: the subtitles are uploaded if there is a video id and
\* a subtitle file
UploadSubtitle ==
    /\ wfpc = "captions"
    /\ wflog' = IF video_id # "" /\ extracted_srt_path # "None"
                THEN Append(wflog, "upload_subtitle") ELSE wflog
    /\ wfpc' = "completed"
    /\ UNCHANGED <<uploaderVars, env, downloaded_file, streams, video_index,
                   audio_index, final_video_path, extracted_srt_path,
                   youtube_service, video_id>>

\* main.py:115-122: a step raises what it does not catch itself (the
\* client cannot connect, ffmpeg is not installed, the credentials are not
\* JSON, the upload is refused); main prints the error and exits
WorkflowRaises ==
    /\ wfpc \in {"download", "transcode", "subtitles", "authenticate",
                "upload"}
    /\ wfpc' = "crashed"
    /\ UNCHANGED <<uploaderVars, env, wflog, downloaded_file, streams,
                   video_index, audio_index, final_video_path,
                   extracted_srt_path, youtube_service, video_id>>

NextWorkflow ==
    \/ ValidateConfig
    \/ \E path \in {"None", "downloads/video.mkv"} : DownloadLatestVideo(path)
    \/ \E kinds \in StreamLists : InspectAndSelectStreams(ProbeOutput(kinds))
    \/ ProbeFails
    \/ \E path \in {"None", "processed/processed_video.mkv"} :
          TranscodeForYoutube(path)
    \/ \E path \in {"None", "processed/video.srt"} : ExtractSubtitles(path)
    \/ Authenticate
    \/ \E id \in {"", "dQw4w9WgXcQ"} : UploadVideo(id)
    \/ UploadSubtitle
    \/ WorkflowRaises

SpecWorkflow == InitWorkflow /\ [][NextWorkflow]_vars

\* ---- inspect_and_select_streams on a given ffprobe output ------------
\* main_workflow has downloaded a file of which ffprobe lists `streams`
InitSelect ==
    /\ UploaderIdle
    /\ env = EnvNames
    /\ wfpc = "inspect"
    /\ wflog = <<"download">>
    /\ downloaded_file = "downloads/video.mkv"
    /\ streams \in {ProbeOutput(kinds) : kinds \in StreamLists}
    /\ video_index = NoIndex
    /\ audio_index = NoIndex
    /\ final_video_path = "None"
    /\ extracted_srt_path = "None"
    /\ youtube_service = "None"
    /\ video_id = "None"

NextSelect == InspectAndSelectStreams(streams)

SpecSelect == InitSelect /\ [][NextSelect]_vars

\* ---- properties -----------------------------------------------------

\* the chunk indices fast_download put on the queue
Enqueued == 0..(TotalChunks(file_size, chunk_size) - 1)

\* the byte range [offset, offset + current_limit) of a chunk
ChunkRange(c) ==
    Offset(c, chunk_size) ..
        (Offset(c, chunk_size) + CurrentLimit(c, file_size, chunk_size) - 1)

\* C1: when every chunk fetch succeeded and the job reports completion, the
\* file has size file_size and every offset below file_size was written
\* exactly once with the byte the remote holds there, also when a chunk's
\* bytes arrived in several pieces.
C1_Completeness ==
    (epc = "complete" /\ \A c \in Enqueued : outcome[c] = "ok")
        => /\ Len(fdata) = file_size
           /\ \A o \in 0..(file_size - 1) :
                 wrote[o] = 1 /\ fdata[o + 1] = RemoteByte(o)

\* C2: if the fetch of some chunk failed, the job is not reported complete
\* and process_link does not process and upload the file.
C2_FailedNotHandedOn ==
    (\E c \in Enqueued : outcome[c] \in FetchErrors)
        => (epc # "complete" /\ plpc # "uploaded")

\* C3: a chunk whose fetch fails with a transient error is put back on the
\* queue (or is at once taken again by a worker) to be fetched again.
C3_TransientRequeued ==
    [][\A c \in Chunks :
          (outcome[c] # "TransientIOError" /\ outcome'[c] = "TransientIOError")
              => (c \in Range(queue') \/ \E w \in Workers : wchunk'[w] = c)]_vars

\* C4: once a chunk has met a fatal error the job does not end Completed.
C4_FatalFailsJob ==
    (\E c \in Enqueued : outcome[c] = "FatalRemoteError") => epc # "complete"

\* C5: a chunk answered with a rate-limit signal of wait T is fetched again
\* before the job completes, and never sooner than T after the signal.
C5_RateLimitHonoured ==
    /\ ~earlyRetry
    /\ epc = "complete"
          => \A c \in Enqueued : retryNotBefore[c] > 0 => attempts[c] >= 2

\* C6: if the fetch of some chunk ended having delivered fewer bytes than
\* the chunk's length, the job does not end Completed.
C6_ShortDeliveryFails ==
    (\E c \in Enqueued : outcome[c] = "short") => epc # "complete"

\* C7: whenever fast_download reports completion, whatever the outcomes of
\* the chunk fetches, the destination file has exactly file_size bytes.
C7_CompleteImpliesSize ==
    epc = "complete" => Len(fdata) = file_size

C7_Witness ==
    /\ epc = "complete"
    /\ \E c \in Enqueued : outcome[c] \in FetchErrors
    /\ \E c \in Enqueued : outcome[c] = "ok"
    /\ \E c \in Enqueued : outcome[c] = "short"

\* C8: the byte ranges of the chunk indices put on the queue are pairwise
\* disjoint and their union is exactly [0, file_size).
C8_Partition ==
    (epc # "start" /\ \A w \in Workers : wpc[w] \in {"created", "unborn"})
        => /\ \A c, d \in Range(queue) :
                 c # d => ChunkRange(c) \cap ChunkRange(d) = {}
           /\ UNION {ChunkRange(c) : c \in Range(queue)} = 0..(file_size - 1)

C8_Witness ==
    /\ epc = "gather"
    /\ \A w \in Workers : wpc[w] = "created"
    /\ Len(queue) >= 2
    /\ file_size % chunk_size # 0

\* C9: a transfer of file_size 0 is complete as soon as fast_download has
\* run: no chunk on the queue, no worker created, no fetch issued, and the
\* destination file exists, closed, with length zero.
C9_EmptyTransfer ==
    (file_size = 0 /\ epc # "start")
        => /\ epc = "complete"
           /\ queue = <<>> /\ unfinished = 0
           /\ \A w \in Workers : wpc[w] = "unborn"
           /\ \A c \in Chunks : attempts[c] = 0
           /\ fileExists /\ ~fileOpen /\ fdata = <<>>

C9_Witness ==
    file_size = 0 /\ epc = "complete" /\ plpc = "uploaded"

\* C10: after a cancellation no fetch is issued, "Download Complete" is
\* never printed, the file is not processed and uploaded, and
\* fast_download ends with the CancelledError.
C10_CancelledNeverCompleted ==
    cancelReq
        => /\ ~fetchAfterCancel
           /\ epc \in {"gather", "cancelled"}
           /\ plpc \in {"downloading", "aborted"}

C10_Witness ==
    /\ epc = "cancelled"
    /\ queue # <<>>
    /\ \E c \in Enqueued : outcome[c] = "CancelledError"
    /\ \E c \in Enqueued : outcome[c] = "ok"

\* C11: when main has ended, on whatever path, no started session is left
\* connected.
C11_SessionTornDown ==
    mpc \in {"ended", "aborted", "raised"} => ~connected

\* C12: no two workers have a fetch in progress through the same session.
C12_SessionExclusive ==
    \A w1, w2 \in Workers :
        (w1 # w2 /\ wpc[w1] = "fetching" /\ wpc[w2] = "fetching")
            => SessionOf(w1) # SessionOf(w2)

\* C13: no call of ProgressTracker.update, incremental or absolute, makes
\* downloaded_bytes smaller.
C13_ProgressMonotone ==
    [][downloaded_bytes' >= downloaded_bytes]_vars

C15_WriteBeforeDone ==
    \A c \in Enqueued :
        outcome[c] # "none" => \A o \in ChunkRange(c) : wrote[o] >= 1

\* C16: when fast_download has left the with-block, no chunk is pending in
\* the queue and no chunk is in flight in a worker.
C16_DrainedAtClose ==
    epc \in {"complete", "cancelled"}
        => /\ queue = <<>>
           /\ \A w \in Workers : wchunk[w] = NoChunk

\* C16, amended: when fast_download has left the with-block every worker
\* has returned and none holds a chunk; unless the download was cancelled,
\* the queue is empty and every chunk put on it was marked done.
C16_ReturnedAtClose ==
    epc \in {"complete", "cancelled"}
        => /\ ~fileOpen
           /\ \A w \in Workers :
                 wpc[w] \in {"unborn", "done"} /\ wchunk[w] = NoChunk
           /\ epc = "complete" => (queue = <<>> /\ unfinished = 0)

C16_Witness ==
    /\ epc = "complete"
    /\ Cardinality(Enqueued) >= 2
    /\ \A w \in Workers : wpc[w] = "done"
    /\ \A c \in Enqueued : outcome[c] # "none"

\* C18: a chunk index is never handed to two workers: no chunk is fetched
\* twice, no two workers hold the same chunk at once, and when the download
\* completes every chunk put on the queue was taken exactly once.
C18_DequeueAtomic ==
    /\ \A c \in Chunks : attempts[c] <= 1
    /\ \A w1, w2 \in Workers :
          (w1 # w2 /\ wchunk[w1] # NoChunk) => wchunk[w1] # wchunk[w2]
    /\ epc = "complete" => \A c \in Enqueued : attempts[c] = 1

C18_Witness ==
    /\ \A w \in Workers : wpc[w] = "fetching"
    /\ queue # <<>>

\* C19: the bytes of a piece land at the offset its worker sought, inside
\* that worker's chunk, and leave every byte outside the chunk untouched,
\* although all workers write through one handle.
C19_WritesLandWhereSought ==
    [][\A w \in Workers :
          wgot'[w] > wgot[w]
              => LET c == wchunk[w]
                     n == wgot'[w] - wgot[w]
                     off == Offset(c, chunk_size)
                 IN  /\ fpos' = off + n
                     /\ off + n - 1 \in ChunkRange(c)
                     /\ Len(fdata') = Len(fdata)
                     /\ \A i \in 1..n :
                           fdata'[off + i] = RemoteByte(off + wgot[w] + i - 1)
                     /\ \A o \in 0..(Len(fdata) - 1) :
                           o \notin off..(off + n - 1)
                               => /\ fdata'[o + 1] = fdata[o + 1]
                                  /\ wrote'[o] = wrote[o]]_vars

C19_Witness ==
    /\ \A w \in Workers : wpc[w] = "fetching" /\ wgot[w] > 0
    /\ fpos # Offset(wchunk[1], chunk_size) + wgot[1]

\* C20: from the start of the workers until after the file is closed, the
\* destination file exists with exactly file_size bytes.
C20_SizeFixed ==
    (fileOpen \/ \E w \in Workers : wpc[w] # "unborn")
        => (fileExists /\ Len(fdata) = file_size)

C20_Witness ==
    /\ fileOpen
    /\ \E w \in Workers : wpc[w] = "created"
    /\ \E w \in Workers : wpc[w] = "fetching" /\ wgot[w] > 0

InFlight == {c \in Chunks : attempts[c] > 0 /\ outcome[c] = "none"}

\* C21: every chunk in flight is held by exactly one worker, and there are
\* as many chunks in flight as workers fetching: a worker holds one chunk
\* at a time, and has taken its next chunk only when the fetch of the
\* previous one has ended.
C21_OneInFlight ==
    /\ \A c \in InFlight :
          Cardinality({w \in Workers : wpc[w] = "fetching" /\ wchunk[w] = c}) = 1
    /\ Cardinality(InFlight)
          = Cardinality({w \in Workers : wpc[w] = "fetching"})
    /\ \A w \in Workers : wpc[w] = "fetching" => wchunk[w] \in InFlight

C21_Witness ==
    /\ \A w \in Workers : wpc[w] = "fetching"
    /\ \E w \in Workers : wchunk[w] >= PARALLEL_WORKERS
    /\ \E c \in Enqueued : outcome[c] \in FetchErrors

\* the least n with fs <= n * cs
CeilDiv(fs, cs) == CHOOSE n \in 0..fs : (n - 1) * cs < fs /\ fs <= n * cs

\* C22: for file_size > 0 there are ceil(file_size / chunk_size) chunk
\* tasks; every chunk but the last is requested with length chunk_size,
\* the last with file_size - offset, which lies in 1..chunk_size; no worker
\* receives more than that for its chunk.
C22_ChunkLengths ==
    (file_size > 0 /\ epc # "start")
        => LET n == CeilDiv(file_size, chunk_size)
               len(c) == IF c < n - 1 THEN chunk_size
                         ELSE file_size - c * chunk_size
           IN  /\ unfinished
                    + Cardinality({c \in Chunks : outcome[c] # "none"}) = n
               /\ Range(queue) \subseteq 0..(n - 1)
               /\ \A c \in 0..(n - 1) :
                     /\ CurrentLimit(c, file_size, chunk_size) = len(c)
                     /\ len(c) \in 1..chunk_size
               /\ \A w \in Workers :
                     wpc[w] = "fetching"
                         => wchunk[w] \in 0..(n - 1) /\ wgot[w] <= len(wchunk[w])

C22_Witness ==
    /\ file_size % chunk_size # 0
    /\ file_size > chunk_size
    /\ \E w \in Workers :
          /\ wpc[w] = "fetching"
          /\ Offset(wchunk[w], chunk_size) + chunk_size > file_size
          /\ wgot[w] = file_size % chunk_size

\* f[0] + ... + f[k]
RECURSIVE SumTo(_, _)
SumTo(f, k) == IF k < 0 THEN 0 ELSE f[k] + SumTo(f, k - 1)

\* the total length of the pieces the workers have written and reported
Reported == SumTo(wrote, MaxFileSize + MaxChunkSize)

\* C23: whatever the interleaving, downloaded_bytes is the total length of
\* the pieces reported so far, so also once every worker has finished; and
\* when every chunk was delivered in full it equals file_size.
C23_FinalSum ==
    epc # "start"
        => /\ downloaded_bytes = Reported
           /\ (epc = "complete" /\ \A c \in Enqueued : outcome[c] = "ok")
                  => downloaded_bytes = file_size

C23_Witness ==
    /\ epc = "complete"
    /\ \A c \in Enqueued : outcome[c] = "ok"
    /\ \A w \in Workers : wpc[w] = "done"
    /\ downloaded_bytes = MaxFileSize
    /\ chunk_size > 1

\* C24: once the fetch of a chunk has ended without error, having
\* delivered the chunk in one or several pieces, the bytes of the file in
\* the chunk's range are the remote's bytes of that range: each piece was
\* written behind the pieces before it.
C24_PiecesConcatenated ==
    \A c \in Enqueued :
        outcome[c] = "ok"
            => \A o \in ChunkRange(c) :
                  o < Len(fdata) /\ fdata[o + 1] = RemoteByte(o)

\* C25: when the fetch of a worker's chunk raises an error, that worker
\* goes on with the chunk at the head of the queue (or returns if the
\* queue is empty) and no other worker is touched; and when fast_download
\* returns, every chunk that was put on the queue has been attempted.
C25_ErrorContained ==
    /\ [][\A w \in Workers :
             (/\ wpc[w] = "fetching"
              /\ outcome[wchunk[w]] = "none"
              /\ outcome'[wchunk[w]] \in FetchErrors)
                 => /\ IF queue = <<>>
                       THEN wpc'[w] = "done"
                       ELSE /\ wpc'[w] = "fetching"
                            /\ wchunk'[w] = Head(queue)
                            /\ queue' = Tail(queue)
                    /\ \A v \in Workers \ {w} :
                          /\ wpc'[v] = wpc[v]
                          /\ wchunk'[v] = wchunk[v]
                          /\ wgot'[v] = wgot[v]]_vars
    /\ [](epc = "complete"
            => \A c \in Enqueued : attempts[c] >= 1 /\ outcome[c] # "none")

C25_Witness ==
    \E w \in Workers :
        /\ wpc[w] = "fetching"
        /\ wchunk[w] >= PARALLEL_WORKERS
        /\ \A c \in Enqueued : c < wchunk[w] => outcome[c] \in FetchErrors

\* C26: main handles one link at a time, each after the one before it has
\* returned; a link that fails in resolving, downloading or processing
\* ends with process_link returning, after which the loop goes on; only a
\* cancellation leaves process_link and main, and main reaches its end
\* only when no link is left.
C26_LinksIndependent ==
    /\ [][
          /\ (plpc # "returned" /\ plpc' = "returned")
              => (mpc' = "in_link" /\ linksLeft' = linksLeft)
          /\ linksLeft' # linksLeft
              => /\ plpc = "returned"
                 /\ linksLeft' = linksLeft - 1
                 /\ mpc' = "loop"
          /\ (plpc = "idle" /\ plpc' # "idle")
              => (mpc = "loop" /\ linksLeft > 0 /\ plpc' = "resolving")
       ]_vars
    /\ [](/\ plpc = "aborted" => cancelReq
          /\ mpc = "aborted" => cancelReq
          /\ mpc = "loop" => plpc = "idle"
          /\ mpc = "ended" => (linksLeft = 0 /\ plpc = "idle"))

\* the link after one whose download raised is being resolved
C26_Witness ==
    /\ mpc = "in_link"
    /\ plpc = "resolving"
    /\ epc = "raised"
    /\ linksLeft = 1

\* C27: whenever process_link returns after the download was started,
\* whether the pipeline succeeded or failed, the raw file of the link is
\* no longer on disk.
C27_TempFilesRemoved ==
    [][(plpc \in {"downloading", "uploaded"} /\ plpc' = "returned")
          => ~fileExists']_vars

\* the steps of main_workflow in the order of the code
StepOrder ==
    <<"download", "inspect", "transcode", "subtitles", "authenticate",
      "upload_video", "upload_subtitle">>

\* C28: the video upload is attempted only after the download returned a
\* file, both stream indices were identified, the transcode returned a path
\* and the service authenticated, in this order; the subtitle upload only
\* with a video id and an extracted subtitle file; after a failed step no
\* later step runs.
C28_StepsGated ==
    /\ Len(wflog) <= Len(StepOrder)
    /\ wflog = SubSeq(StepOrder, 1, Len(wflog))
    /\ Len(wflog) >= 6 =>
          /\ downloaded_file # "None"
          /\ video_index # NoIndex
          /\ audio_index # NoIndex
          /\ final_video_path # "None"
          /\ youtube_service # "None"
    /\ Len(wflog) = 7 => (video_id \notin {"None", ""}
                            /\ extracted_srt_path # "None")
    /\ (Len(wflog) >= 1 /\ downloaded_file = "None") => Len(wflog) = 1
    /\ (Len(wflog) >= 2 /\ (video_index = NoIndex \/ audio_index = NoIndex))
          => Len(wflog) = 2
    /\ (Len(wflog) >= 3 /\ final_video_path = "None") => Len(wflog) = 3
    /\ (Len(wflog) >= 5 /\ youtube_service = "None") => Len(wflog) = 5

C28_Witness ==
    /\ wfpc = "completed"
    /\ Len(wflog) = 7
    /\ video_index # NoIndex
    /\ audio_index # NoIndex

\* C29: a configuration that validate_config accepts has the credentials
\* get_authenticated_service_non_interactive reads, so the workflow never
\* ends at the authentication step for lack of them.
C29_ValidatedAuthenticates ==
    /\ wfpc \notin {"idle", "start", "exited"} => CredentialsFound(env)
    /\ Len(wflog) >= 5 => youtube_service # "None"

\* the stream at the first position of ss that satisfies P
FirstIndex(ss, P(_)) ==
    IF \E i \in 1..Len(ss) : P(ss[i])
    THEN ss[CHOOSE i \in 1..Len(ss) :
                /\ P(ss[i])
                /\ \A j \in 1..(i - 1) : ~P(ss[j])].index
    ELSE NoIndex

IsVideo(s) == s.codec_type = "video"

IsAudio(s) == s.codec_type = "audio"

IsEnglishAudio(s) == s.codec_type = "audio" /\ s.language \in {"eng", "ENG"}

\* C30: the video index is the index of the first video stream; the audio
\* index is the index of the first audio stream tagged eng in any letter
\* case, or of the first audio stream if none is tagged so; None without such
\* a stream.
C30_SelectedStreams ==
    Len(wflog) >= 2 =>
        /\ video_index = FirstIndex(streams, IsVideo)
        /\ audio_index = IF \E i \in 1..Len(streams) : IsEnglishAudio(streams[i])
                         THEN FirstIndex(streams, IsEnglishAudio)
                         ELSE FirstIndex(streams, IsAudio)

C30_Witness ==
    /\ Len(wflog) >= 2
    /\ Len(streams) = 3
    /\ IsAudio(streams[1]) /\ streams[1].language = "fre"
    /\ IsEnglishAudio(streams[2]) /\ streams[2].language = "ENG"
    /\ audio_index = 1
    /\ video_index = 2

====
